---------------------------- MODULE Spec2Model ----------------------------
(* Directory-tree comparison tool: FileNode trees built by scan_directory  *)
(* and parallel_scan_directory, compare_trees, find_similar_files          *)
(* (main.py) and the annotation pass process_tree (tree_processor.py).     *)
EXTENDS Integers, Sequences, FiniteSets, Bags, TLC

(***************************************************************************)
(* Bounds of the model.                                                    *)
(***************************************************************************)
\* Largest number of entries (the root directory included) of a scanned directory.
MaxNodes == 3

\* Names of directory entries (unique among siblings, as in a filesystem).
Names == {"a", "b"}

\* File contents the scanned directories draw from.
Contents == {1, 2, 3}

\* item.stat().st_size of each content.
StSize == <<1, 1, 2>>

\* hashlib.md5(content).hexdigest() of each content: distinct contents have
\* distinct digests of one fixed length (digits stand for hex characters).
Md5OfContent ==
    << <<1,1,1,1,1,1,1,1,1,1>>,
       <<1,1,1,1,1,1,1,1,1,2>>,
       <<1,1,1,1,1,1,1,2,2,2>> >>

\* Python's None in the content_hash slot (no digest is <<0>>).
None == <<0>>

\* hashlib.md5(s).hexdigest() of a concatenation of digests: an ideal
\* (collision-free) hash, written as the bracketed input.
Md5(s) == <<8>> \o s \o <<9>>

(***************************************************************************)
(* The filesystem the scanners read.                                       *)
(***************************************************************************)
FsFile(n, c) == [name |-> n, is_dir |-> FALSE, content |-> c, entries |-> <<>>]

FsDir(n, es) == [name |-> n, is_dir |-> TRUE, content |-> 0, entries |-> es]

RECURSIVE FsCount(_)
FsCount(e) ==
    LET RECURSIVE Sum(_)
        Sum(i) == IF i = 0 THEN 0 ELSE FsCount(e.entries[i]) + Sum(i - 1)
    IN  1 + Sum(Len(e.entries))

RECURSIVE FsEntries(_), FsSeqs(_)
\* Entries (files and directories) of at most k nodes.
FsEntries(k) ==
    IF k <= 0 THEN {}
    ELSE {FsFile(n, c) : n \in Names, c \in Contents}
         \cup {FsDir(n, es) : n \in Names, es \in FsSeqs(k - 1)}

\* os.scandir listings of at most m nodes in all, sibling names distinct.
FsSeqs(m) ==
    {<<>>} \cup
    UNION { { <<e>> \o r : r \in { q \in FsSeqs(m - FsCount(e)) :
                                    \A i \in 1..Len(q) : q[i].name # e.name } }
            : e \in FsEntries(m) }

\* The directories handed to the scanners.
FsRoots == {FsDir(n, es) : n \in Names, es \in FsSeqs(MaxNodes - 1)}

(***************************************************************************)
(* FileNode and the scanners.                                              *)
(***************************************************************************)
FileNode(name, is_dir, size) ==
    [name |-> name, is_dir |-> is_dir, size |-> size,
     content_hash |-> None, children |-> <<>>]

add_child(node, child) == [node EXCEPT !.children = Append(@, child)]

calculate_file_hash(item) == Md5OfContent[item.content]

RECURSIVE scan_directory(_)
scan_directory(d) ==
    LET child(item) ==
            IF item.is_dir THEN scan_directory(item)
            ELSE [FileNode(item.name, FALSE, StSize[item.content])
                    EXCEPT !.content_hash = calculate_file_hash(item)]
        RECURSIVE loop(_, _)
        loop(root, i) ==
            IF i > Len(d.entries) THEN root
            ELSE loop(add_child(root, child(d.entries[i])), i + 1)
    IN  loop(FileNode(d.name, TRUE, 0), 1)

RECURSIVE ConcatAll(_)
ConcatAll(ss) == IF ss = <<>> THEN <<>> ELSE Head(ss) \o ConcatAll(Tail(ss))

RECURSIVE calculate_hash(_)
calculate_hash(node) ==
    IF ~node.is_dir
    THEN (IF node.content_hash = None THEN <<>> ELSE node.content_hash)
    ELSE Md5(ConcatAll([i \in 1..Len(node.children) |->
                            calculate_hash(node.children[i])]))

(***************************************************************************)
(* compare_trees.                                                          *)
(***************************************************************************)
\* The tuple with the aggregate digest of a directory in its last slot.
NodeTuple_digest(node) ==
    <<node.name, node.is_dir, node.size,
      IF node.is_dir THEN calculate_hash(node) ELSE node.content_hash>>

\* One element of get_node_info's list.
NodeTuple(node) == <<node.name, node.is_dir, node.size, node.content_hash>>

RECURSIVE get_node_info(_)
get_node_info(node) ==
    <<NodeTuple(node)>> \o
    ConcatAll([i \in 1..Len(node.children) |-> get_node_info(node.children[i])])

Range(s) == {s[i] : i \in 1..Len(s)}

\* f"Only in {tree.name}: {item[0]}"
OnlyIn(treeName, itemName) == "Only in " \o treeName \o ": " \o itemName

\* Both branches name the first tree.
DiffEntry_first(tree1, tree2, info1, item) == OnlyIn(tree1.name, item[1])

\* The entry compare_trees appends for one item of union - intersection.
DiffEntry(tree1, tree2, info1, item) ==
    IF item \in info1 THEN OnlyIn(tree1.name, item[1])
    ELSE OnlyIn(tree2.name, item[1])

\* A division that truncates (// for /).
Similarity_floor(intersection, union) ==
    IF union # {}
    THEN <<Cardinality(intersection) \div Cardinality(union), 1>>
    ELSE <<0, 1>>

\* len(intersection) / len(union) if union else 0, as the quotient <<n, d>>.
Similarity(intersection, union) ==
    IF union # {}
    THEN <<Cardinality(intersection), Cardinality(union)>>
    ELSE <<0, 1>>

\* The result of compare_trees.  similarity is the quotient <<n, d>> of the
\* division; differences is the returned list as a bag, its order being the
\* iteration order of a Python set.
compare_trees(tree1, tree2) ==
    LET info1 == Range(get_node_info(tree1))
        info2 == Range(get_node_info(tree2))
        intersection == info1 \cap info2
        union == info1 \cup info2
        items == union \ intersection
        entry(item) == DiffEntry(tree1, tree2, info1, item)
    IN  [done |-> TRUE,
         similarity |-> Similarity(intersection, union),
         differences |-> [e \in {entry(it) : it \in items} |->
                            Cardinality({it \in items : entry(it) = e})]]

NoResult == [done |-> FALSE, similarity |-> <<0, 1>>, differences |-> EmptyBag]

(***************************************************************************)
(* find_similar_files and difflib.SequenceMatcher(None, a, b).ratio().     *)
(***************************************************************************)
\* The longest block a[i..i+k-1] = b[j..j+k-1] inside a[alo..ahi], b[blo..bhi]:
\* of the longest blocks the one that starts earliest in a, and of those the
\* one that starts earliest in b; <<alo, blo, 0>> when nothing matches.
find_longest_match(a, b, alo, ahi, blo, bhi) ==
    LET cands == { c \in (alo..ahi) \X (blo..bhi) \X (1..(ahi - alo + 1)) :
                     /\ c[1] + c[3] - 1 <= ahi
                     /\ c[2] + c[3] - 1 <= bhi
                     /\ \A t \in 0..(c[3] - 1) : a[c[1] + t] = b[c[2] + t] }
        best(c) == \A o \in cands :
                     \/ c[3] > o[3]
                     \/ c[3] = o[3] /\ c[1] < o[1]
                     \/ c[3] = o[3] /\ c[1] = o[1] /\ c[2] <= o[2]
    IN  IF cands = {} THEN <<alo, blo, 0>> ELSE CHOOSE c \in cands : best(c)

\* The total size of get_matching_blocks(): the longest block, then the
\* pieces to its left and to its right.
RECURSIVE matching_size(_, _, _, _, _, _)
matching_size(a, b, alo, ahi, blo, bhi) ==
    IF alo > ahi \/ blo > bhi THEN 0
    ELSE LET m == find_longest_match(a, b, alo, ahi, blo, bhi)
         IN  IF m[3] = 0 THEN 0
             ELSE m[3] + matching_size(a, b, alo, m[1] - 1, blo, m[2] - 1)
                       + matching_size(a, b, m[1] + m[3], ahi, m[2] + m[3], bhi)

\* ratio(): 2.0 * matches / length as the quotient <<n, d>>, 1.0 when both
\* strings are empty.
ratio(a, b) ==
    IF Len(a) + Len(b) = 0 THEN <<1, 1>>
    ELSE <<2 * matching_size(a, b, 1, Len(a), 1, Len(b)), Len(a) + Len(b)>>

\* The ratios of the digests the scanned files can have, computed once.
RatioOfDigests ==
    [a \in Range(Md5OfContent), b \in Range(Md5OfContent) |-> ratio(a, b)]

\* file1[0] != file2[0]
NamesDiffer(file1, file2) == file1[1] # file2[1]

\* similarity >= 0.8
AboveThreshold_ge(similarity) == 5 * similarity[1] >= 4 * similarity[2]

\* similarity > 0.8
AboveThreshold(similarity) == 5 * similarity[1] > 4 * similarity[2]

find_similar_files(t1, t2) ==
    LET files1 == SelectSeq(get_node_info(t1), LAMBDA node : ~node[2])
        files2 == SelectSeq(get_node_info(t2), LAMBDA node : ~node[2])
        step(file1, file2) ==
            IF NamesDiffer(file1, file2)
            THEN LET similarity == RatioOfDigests[file1[4], file2[4]]
                 IN  IF AboveThreshold(similarity)
                     THEN << <<file1[1], file2[1], similarity>> >>
                     ELSE <<>>
            ELSE <<>>
    IN  ConcatAll([i \in 1..Len(files1) |->
            ConcatAll([j \in 1..Len(files2) |-> step(files1[i], files2[j])])])

(***************************************************************************)
(* parallel_scan_directory.                                                *)
(***************************************************************************)
\* What one worker returns for its directory entry.
process_item(item) ==
    IF item.is_dir THEN scan_directory(item)
    ELSE [FileNode(item.name, FALSE, StSize[item.content])
            EXCEPT !.content_hash = calculate_file_hash(item)]

(***************************************************************************)
(* process_tree and traverse_tree.                                         *)
(***************************************************************************)
\* An attribute no statement has assigned yet (FileNode.__init__ sets
\* neither depth, weight, signature, max_depth nor max_branching_factor).
Unset == -1

\* The default of process_tree's num_perm.
DefaultNumPerm == 128

\* parent = None in the pair the first loop pushes for the root.
NoParent == <<0>>

Max(x, y) == IF x >= y THEN x ELSE y

Last(s) == s[Len(s)]

Front(s) == SubSeq(s, 1, Len(s) - 1)

\* The nodes of a tree, addressed by their path of child indices from the
\* root (the root is <<>>): the model's object identity.
RECURSIVE NodePaths(_)
NodePaths(node) ==
    {<<>>} \cup UNION { { <<i>> \o p : p \in NodePaths(node.children[i]) }
                        : i \in 1..Len(node.children) }

RECURSIVE NodeAt(_, _)
NodeAt(node, p) == IF p = <<>> THEN node ELSE NodeAt(node.children[Head(p)], Tail(p))

\* node.children of the node at path p, as paths, in child order.
ChildPaths(tree, p) == [i \in 1..Len(NodeAt(tree, p).children) |-> p \o <<i>>]

VARIABLES
    fs1,        \* the directory given as dir1
    tree1,      \* the FileNode tree of dir1
    tree2,      \* the FileNode tree of dir2
    res12,      \* compare_trees(tree1, tree2)
    res21,      \* compare_trees(tree2, tree1)
    similar,    \* find_similar_files(tree1, tree2)
    scan,       \* parallel_scan_directory: finished futures, yield order, position
    num_perm,   \* process_tree's argument
    callerDepth,\* whether the caller gave the root a depth attribute before the call
    pc,         \* process_tree's position
    stack,      \* the first loop's stack of (node, parent)
    locals,     \* max_depth and max_branching_factor of the first loop
    depth,      \* node.depth of every node
    depthSet,   \* the nodes process_tree assigned depth to
    rootAttrs,  \* root.max_depth and root.max_branching_factor
    weightCalls,\* invocations of calculate_dynamic_weight per node
    earlyCall,  \* an invocation saw a node without depth or a root without maxima
    signature,  \* node.signature of every node: the size of its sketch
    tstack,     \* traverse_tree's stack
    yielded,    \* the nodes traverse_tree yielded, in order
    err         \* the exception process_tree raised

inVars == <<fs1, tree1, tree2>>

cmpVars == <<res12, res21>>

procVars == <<num_perm, callerDepth, pc, stack, locals, depth, depthSet, rootAttrs,
              weightCalls, earlyCall, signature, tstack, yielded, err>>

vars == <<inVars, cmpVars, similar, scan, procVars>>

Trees == {scan_directory(d) : d \in FsRoots}

ScanIdle == [finished |-> {}, order |-> <<>>, pc |-> "returned"]

ProcIdle ==
    /\ num_perm = DefaultNumPerm
    /\ callerDepth = FALSE
    /\ pc = "idle"
    /\ stack = <<>>
    /\ locals = [max_depth |-> 0, max_branching_factor |-> 0]
    /\ depth = <<>>
    /\ depthSet = {}
    /\ rootAttrs = [max_depth |-> Unset, max_branching_factor |-> Unset]
    /\ weightCalls = <<>>
    /\ earlyCall = FALSE
    /\ signature = <<>>
    /\ tstack = <<>>
    /\ yielded = <<>>
    /\ err = "none"

(***************************************************************************)
(* compare_trees in both directions on two scanned trees.                  *)
(***************************************************************************)
\* main() after both directories were scanned (main.py 172-174, no --parallel).
InitCompare ==
    /\ fs1 \in FsRoots
    /\ tree1 = scan_directory(fs1)
    /\ tree2 \in Trees
    /\ res12 = NoResult
    /\ res21 = NoResult
    /\ similar = [done |-> FALSE, pairs |-> <<>>]
    /\ scan = ScanIdle
    /\ ProcIdle

Compare12 ==
    /\ scan.pc = "returned"
    /\ ~res12.done
    /\ res12' = compare_trees(tree1, tree2)
    /\ UNCHANGED <<inVars, res21, similar, scan, procVars>>

Compare21 ==
    /\ res12.done
    /\ ~res21.done
    /\ res21' = compare_trees(tree2, tree1)
    /\ UNCHANGED <<inVars, res12, similar, scan, procVars>>

NextCompare == Compare12 \/ Compare21

SpecCompare == InitCompare /\ [][NextCompare]_vars

(***************************************************************************)
(* find_similar_files on two scanned trees.                                *)
(***************************************************************************)
FindSimilar ==
    /\ ~similar.done
    /\ similar' = [done |-> TRUE, pairs |-> find_similar_files(tree1, tree2)]
    /\ UNCHANGED <<inVars, cmpVars, scan, procVars>>

NextSimilar == FindSimilar

SpecSimilar == InitCompare /\ [][NextSimilar]_vars

(***************************************************************************)
(* parallel_scan_directory(dir1), then the comparison with a second tree.  *)
(***************************************************************************)
\* After the root was created and every entry submitted to the executor.
InitParallel ==
    /\ fs1 \in FsRoots
    /\ tree1 = FileNode(fs1.name, TRUE, 0)
    /\ tree2 = FileNode(fs1.name, TRUE, 0)
    /\ res12 = NoResult
    /\ res21 = NoResult
    /\ similar = [done |-> FALSE, pairs |-> <<>>]
    /\ scan = [finished |-> {}, order |-> <<>>, pc |-> "scanning"]
    /\ ProcIdle

\* The worker of entry i returns.
WorkerFinish(i) ==
    /\ scan.pc = "scanning"
    /\ i \notin scan.finished
    /\ scan' = [scan EXCEPT !.finished = @ \cup {i}]
    /\ UNCHANGED <<inVars, cmpVars, similar, procVars>>

\* The futures are awaited in submission order (for future in futures).
AddChild_submitted(i) ==
    /\ scan.pc = "scanning"
    /\ i \in scan.finished
    /\ i = Len(scan.order) + 1
    /\ tree1' = add_child(tree1, process_item(fs1.entries[i]))
    /\ scan' = [scan EXCEPT !.order = Append(@, i)]
    /\ UNCHANGED <<fs1, tree2, cmpVars, similar, procVars>>

\* as_completed yields the finished future of entry i; the main thread
\* appends its result to the root.
AddChild(i) ==
    /\ scan.pc = "scanning"
    /\ i \in scan.finished
    /\ i \notin Range(scan.order)
    /\ tree1' = add_child(tree1, process_item(fs1.entries[i]))
    /\ scan' = [scan EXCEPT !.order = Append(@, i)]
    /\ UNCHANGED <<fs1, tree2, cmpVars, similar, procVars>>

\* Every future was yielded: the executor shuts down and the root is returned.
Return ==
    /\ scan.pc = "scanning"
    /\ Len(scan.order) = Len(fs1.entries)
    /\ scan' = [scan EXCEPT !.pc = "returned"]
    /\ UNCHANGED <<inVars, cmpVars, similar, procVars>>

\* The directories given as dir2: dir1 itself and every smaller directory.
SecondRoots == {fs1} \cup {FsDir(n, es) : n \in Names, es \in FsSeqs(MaxNodes - 2)}

\* main(): the second directory is scanned and the two trees are compared.
ScanSecondAndCompare(d) ==
    /\ scan.pc = "returned"
    /\ ~res12.done
    /\ tree2' = scan_directory(d)
    /\ res12' = compare_trees(tree1, tree2')
    /\ UNCHANGED <<fs1, tree1, res21, similar, scan, procVars>>

NextParallel ==
    \/ \E i \in 1..Len(fs1.entries) : WorkerFinish(i)
    \/ \E i \in 1..Len(fs1.entries) : AddChild(i)
    \/ Return
    \/ \E d \in SecondRoots : ScanSecondAndCompare(d)

SpecParallel == InitParallel /\ [][NextParallel]_vars

(***************************************************************************)
(* process_tree(tree1, num_perm).                                          *)
(***************************************************************************)
\* Before the call.  The nodes are FileNode objects, which have no depth;
\* the caller may have given the root one.
InitProcess ==
    /\ fs1 \in FsRoots
    /\ tree1 = scan_directory(fs1)
    /\ tree2 = tree1
    /\ res12 = NoResult
    /\ res21 = NoResult
    /\ similar = [done |-> FALSE, pairs |-> <<>>]
    /\ scan = ScanIdle
    /\ num_perm \in {0, DefaultNumPerm}
    /\ callerDepth \in BOOLEAN
    /\ pc = "call"
    /\ stack = <<>>
    /\ locals = [max_depth |-> 0, max_branching_factor |-> 0]
    /\ depth = [p \in NodePaths(tree1) |->
                    IF p = <<>> /\ callerDepth THEN 0 ELSE Unset]
    /\ depthSet = {}
    /\ rootAttrs = [max_depth |-> Unset, max_branching_factor |-> Unset]
    /\ weightCalls = [p \in NodePaths(tree1) |-> 0]
    /\ earlyCall = FALSE
    /\ signature = [p \in NodePaths(tree1) |-> Unset]
    /\ tstack = <<>>
    /\ yielded = <<>>
    /\ err = "none"

\* Lines 5-7: the stack holds (root, None), both maxima are 0.
Call ==
    /\ pc = "call"
    /\ stack' = << [node |-> <<>>, parent |-> NoParent] >>
    /\ locals' = [max_depth |-> 0, max_branching_factor |-> 0]
    /\ pc' = "loop1"
    /\ UNCHANGED <<inVars, cmpVars, similar, scan, num_perm, callerDepth, depth,
                   depthSet, rootAttrs, weightCalls, earlyCall, signature, tstack,
                   yielded, err>>

\* node.depth after lines 11-12 of the iteration that popped `top`.
DepthAfterPop(top) ==
    IF top.parent # NoParent
    THEN [depth EXCEPT ![top.node] = depth[top.parent] + 1]
    ELSE depth

\* Lines 9-17, one iteration: pop, set the depth of a node that has a parent,
\* update the maxima, push the children.
Loop1Step ==
    /\ pc = "loop1"
    /\ stack # <<>>
    /\ LET top == Last(stack)
           kids == ChildPaths(tree1, top.node)
       IN  /\ DepthAfterPop(top)[top.node] # Unset
           /\ depth' = DepthAfterPop(top)
           /\ depthSet' = IF top.parent # NoParent THEN depthSet \cup {top.node}
                          ELSE depthSet
           /\ locals' = [max_depth |->
                             Max(locals.max_depth, DepthAfterPop(top)[top.node]),
                         max_branching_factor |->
                             Max(locals.max_branching_factor, Len(kids))]
           /\ stack' = Front(stack) \o
                       [i \in 1..Len(kids) |-> [node |-> kids[i], parent |-> top.node]]
    /\ UNCHANGED <<inVars, cmpVars, similar, scan, num_perm, callerDepth, pc,
                   rootAttrs, weightCalls, earlyCall, signature, tstack, yielded, err>>

\* Line 13 reads node.depth of a node that has none: AttributeError.
Loop1Fail ==
    /\ pc = "loop1"
    /\ stack # <<>>
    /\ DepthAfterPop(Last(stack))[Last(stack).node] = Unset
    /\ stack' = Front(stack)
    /\ pc' = "failed"
    /\ err' = "AttributeError"
    /\ UNCHANGED <<inVars, cmpVars, similar, scan, num_perm, callerDepth, locals,
                   depth, depthSet, rootAttrs, weightCalls, earlyCall, signature,
                   tstack, yielded>>

\* Lines 19-22: the maxima are stored on the root; traverse_tree(root) starts.
Loop1Exit ==
    /\ pc = "loop1"
    /\ stack = <<>>
    /\ rootAttrs' = locals
    /\ tstack' = << <<>> >>
    /\ pc' = "loop2"
    /\ UNCHANGED <<inVars, cmpVars, similar, scan, num_perm, callerDepth, stack,
                   locals, depth, depthSet, weightCalls, earlyCall, signature,
                   yielded, err>>

\* calculate_dynamic_weight(node, root) is invoked on the node traverse_tree
\* popped and yielded.
Weigh(node) ==
    /\ yielded' = Append(yielded, node)
    /\ weightCalls' = [weightCalls EXCEPT ![node] = @ + 1]
    /\ earlyCall' = (\/ earlyCall
                     \/ \E p \in NodePaths(tree1) : depth[p] = Unset
                     \/ rootAttrs.max_depth = Unset
                     \/ rootAttrs.max_branching_factor = Unset)

\* Lines 22-24 with traverse_tree 28-31, one iteration: pop and yield a node,
\* weigh it, compute its signature of num_perm values, push its children.
\* MinHash(num_perm = 0) is the library's to accept or to refuse.
Loop2Step ==
    /\ pc = "loop2"
    /\ tstack # <<>>
    /\ Weigh(Last(tstack))
    /\ signature' = [signature EXCEPT ![Last(tstack)] = num_perm]
    /\ tstack' = Front(tstack) \o ChildPaths(tree1, Last(tstack))
    /\ UNCHANGED <<inVars, cmpVars, similar, scan, num_perm, callerDepth, pc, stack,
                   locals, depth, depthSet, rootAttrs, err>>

\* The library refuses num_perm = 0 inside compute_node_signature: the node
\* was popped and weighed, and the generator is never resumed.
Loop2Raise ==
    /\ pc = "loop2"
    /\ tstack # <<>>
    /\ num_perm = 0
    /\ Weigh(Last(tstack))
    /\ tstack' = Front(tstack)
    /\ pc' = "failed"
    /\ err' = "ValueError"
    /\ UNCHANGED <<inVars, cmpVars, similar, scan, num_perm, callerDepth, stack,
                   locals, depth, depthSet, rootAttrs, signature>>

\* traverse_tree's stack is empty: the generator ends and process_tree returns.
Loop2Exit ==
    /\ pc = "loop2"
    /\ tstack = <<>>
    /\ pc' = "done"
    /\ UNCHANGED <<inVars, cmpVars, similar, scan, num_perm, callerDepth, stack,
                   locals, depth, depthSet, rootAttrs, weightCalls, earlyCall,
                   signature, tstack, yielded, err>>

NextProcess ==
    \/ Call
    \/ Loop1Step
    \/ Loop1Fail
    \/ Loop1Exit
    \/ Loop2Step
    \/ Loop2Raise
    \/ Loop2Exit

SpecProcess == InitProcess /\ [][NextProcess]_vars

\* The set of identity tuples of all nodes of a tree, root included.
Info(tree) == {NodeTuple(NodeAt(tree, p)) : p \in NodePaths(tree)}

\* Equality of two quotients.
FracEq(x, y) == x[1] * y[2] = y[1] * x[2]

(***************************************************************************)
(* Claims about compare_trees, under SpecCompare.                          *)
(***************************************************************************)
\* C1: the similarity compare_trees(A, B) returns is |infoA \cap infoB| /
\* |infoA \cup infoB| over the identity tuples of all nodes (root included);
\* it lies in [0, 1], is 0 when the union is empty, and is 0 exactly when the
\* intersection is empty.
C1_Jaccard ==
    res12.done =>
        LET inter == Info(tree1) \cap Info(tree2)
            union == Info(tree1) \cup Info(tree2)
            n == res12.similarity[1]
            d == res12.similarity[2]
        IN  /\ d > 0
            /\ union # {} => FracEq(<<n, d>>, <<Cardinality(inter), Cardinality(union)>>)
            /\ union = {} => n = 0
            /\ 0 <= n /\ n <= d
            /\ (n = 0) <=> (inter = {})

\* Two trees that share no identity tuple were compared: similarity 0.
C1_Witness ==
    /\ res12.done
    /\ Info(tree1) \cap Info(tree2) = {}
    /\ res12.similarity[1] = 0
    /\ Cardinality(Info(tree1) \cup Info(tree2)) > 2

\* C2: differences holds exactly one entry per identity tuple of
\* (infoA \cup infoB) \ (infoA \cap infoB) and nothing else; each entry
\* carries the entry's name and a tag that tells which of the two trees
\* exclusively contains the tuple, also when both roots have the same name.
C2_DiffEntries ==
    res12.done =>
        LET infoA == Info(tree1)
            infoB == Info(tree2)
            sym == (infoA \cup infoB) \ (infoA \cap infoB)
            owner(it) == IF it \in infoA THEN tree1 ELSE tree2
            other(it) == IF it \in infoA THEN tree2 ELSE tree1
            entry(it) == OnlyIn(owner(it).name, it[1])
        IN  /\ BagCardinality(res12.differences) = Cardinality(sym)
            /\ \A e \in BagToSet(res12.differences) :
                   CopiesIn(e, res12.differences)
                       = Cardinality({it \in sym : entry(it) = e})
            /\ \A it \in sym :
                   /\ BagIn(entry(it), res12.differences)
                   /\ entry(it) # OnlyIn(other(it).name, it[1])

\* The identity the specification gives a node: the fingerprint of a
\* directory is the digest of its children's fingerprints in child order.
SpecIdentity(node) ==
    <<node.name, node.is_dir, node.size,
      IF node.is_dir THEN calculate_hash(node) ELSE node.content_hash>>

\* C3: compare_trees counts two nodes as the same entry exactly when their
\* (name, kind, size, fingerprint) tuples are equal, a directory's fingerprint
\* being the aggregate digest of its children; so same-named directories with
\* different descendants are different entries and appear in differences.
C3_Identity ==
    res12.done =>
        \A p1 \in NodePaths(tree1) :
            LET n1 == NodeAt(tree1, p1)
                common == NodeTuple(n1) \in Range(get_node_info(tree2))
                same == \E p2 \in NodePaths(tree2) :
                            SpecIdentity(NodeAt(tree2, p2)) = SpecIdentity(n1)
            IN  /\ common <=> same
                /\ ~same => BagIn(OnlyIn(tree1.name, n1.name), res12.differences)

\* C9: compare_trees is symmetric: the similarity of (A, B) equals that of
\* (B, A), and the two difference lists are the same multiset, each entry
\* being tagged with its owner tree whichever argument that tree is.
C9_Symmetric ==
    (res12.done /\ res21.done) =>
        /\ FracEq(res12.similarity, res21.similarity)
        /\ res12.differences = res21.differences

\* Both directions were computed for trees with different root names, each
\* holding an entry the other lacks.
C9_Witness ==
    /\ res12.done /\ res21.done
    /\ tree1.name # tree2.name
    /\ Info(tree1) \ Info(tree2) # {}
    /\ Info(tree2) \ Info(tree1) # {}
    /\ Info(tree1) \cap Info(tree2) # {}

(***************************************************************************)
(* Claims about find_similar_files, under SpecSimilar.                     *)
(***************************************************************************)
SeqToBag(q) == [x \in Range(q) |-> Cardinality({i \in 1..Len(q) : q[i] = x})]

\* The pairs (File node of A, File node of B) with different names whose
\* fingerprint strings score above 0.8.
SimilarPairs ==
    { pp \in NodePaths(tree1) \X NodePaths(tree2) :
        LET n1 == NodeAt(tree1, pp[1])
            n2 == NodeAt(tree2, pp[2])
        IN  /\ ~n1.is_dir /\ ~n2.is_dir
            /\ n1.name # n2.name
            /\ 10 * RatioOfDigests[n1.content_hash, n2.content_hash][1]
                   > 8 * RatioOfDigests[n1.content_hash, n2.content_hash][2] }

SimilarTriple(pp) ==
    <<NodeAt(tree1, pp[1]).name, NodeAt(tree2, pp[2]).name,
      RatioOfDigests[NodeAt(tree1, pp[1]).content_hash,
                     NodeAt(tree2, pp[2]).content_hash]>>

\* C6: find_similar_files(A, B) returns exactly the triples (nameA, nameB,
\* score) of the pairs of a File node of A and a File node of B whose names
\* differ and whose fingerprint strings score strictly above 0.8; same-named
\* files are never reported and no Directory appears.
C6_SimilarFiles ==
    similar.done =>
        /\ SeqToBag(similar.pairs) =
               [x \in {SimilarTriple(pp) : pp \in SimilarPairs} |->
                    Cardinality({pp \in SimilarPairs : SimilarTriple(pp) = x})]
        /\ \A k \in 1..Len(similar.pairs) :
               /\ similar.pairs[k][1] # similar.pairs[k][2]
               /\ \E pp \in NodePaths(tree1) \X NodePaths(tree2) :
                      /\ ~NodeAt(tree1, pp[1]).is_dir
                      /\ ~NodeAt(tree2, pp[2]).is_dir
                      /\ NodeAt(tree1, pp[1]).name = similar.pairs[k][1]
                      /\ NodeAt(tree2, pp[2]).name = similar.pairs[k][2]

\* The finder ran on trees that hold a same-named pair of files with one
\* fingerprint (score 1.0, left out), a pair scoring exactly 0.8 (left out)
\* and a pair scoring above 0.8 (reported).
C6_Witness ==
    /\ similar.done
    /\ Len(similar.pairs) = 1
    /\ \E pp \in NodePaths(tree1) \X NodePaths(tree2) :
           LET n1 == NodeAt(tree1, pp[1])
               n2 == NodeAt(tree2, pp[2])
           IN  /\ ~n1.is_dir /\ ~n2.is_dir
               /\ n1.name = n2.name
               /\ n1.content_hash = n2.content_hash
    /\ \E pp \in NodePaths(tree1) \X NodePaths(tree2) :
           LET n1 == NodeAt(tree1, pp[1])
               n2 == NodeAt(tree2, pp[2])
           IN  /\ ~n1.is_dir /\ ~n2.is_dir
               /\ n1.name # n2.name
               /\ FracEq(RatioOfDigests[n1.content_hash, n2.content_hash], <<4, 5>>)

(***************************************************************************)
(* Claims about parallel_scan_directory, under SpecParallel.               *)
(***************************************************************************)
SwapChildren(node, i, j) ==
    [node EXCEPT !.children =
        [k \in 1..Len(@) |-> IF k = i THEN @[j] ELSE IF k = j THEN @[i] ELSE @[k]]]

ChildHashes(node) == [k \in 1..Len(node.children) |-> calculate_hash(node.children[k])]

\* C7: parallel_scan_directory appends the children in the order the workers'
\* futures are yielded (any finished future may be next), not in enumeration
\* order; a children order whose fingerprints differ from the enumeration
\* order's gives a different root.calculate_hash(), and swapping two children
\* with unequal fingerprints always changes the directory fingerprint.
C7_OrderSensitive ==
    /\ scan.pc = "scanning" =>
           \A i \in scan.finished \ Range(scan.order) : ENABLED AddChild(i)
    /\ Len(tree1.children) = Len(scan.order)
    /\ \A k \in 1..Len(scan.order) :
           tree1.children[k] = process_item(fs1.entries[scan.order[k]])
    /\ \A i, j \in 1..Len(tree1.children) :
           calculate_hash(tree1.children[i]) # calculate_hash(tree1.children[j])
               => calculate_hash(SwapChildren(tree1, i, j)) # calculate_hash(tree1)
    /\ (scan.pc = "returned" /\ ChildHashes(tree1) # ChildHashes(scan_directory(fs1)))
           => calculate_hash(tree1) # calculate_hash(scan_directory(fs1))

\* A parallel scan of a directory with two entries of different fingerprints
\* returned a root whose fingerprint is not the sequential scan's.
C7_Witness ==
    /\ scan.pc = "returned"
    /\ Len(fs1.entries) >= 2
    /\ scan.order # [k \in 1..Len(fs1.entries) |-> k]
    /\ calculate_hash(tree1) # calculate_hash(scan_directory(fs1))

\* C10: whatever the interleaving of the workers, the returned root has
\* exactly one child per directory entry, and compare_trees of it against
\* any other tree gives the similarity and the multiset of differences that
\* the tree of the sequential scan_directory gives.
C10_OrderIndependent ==
    scan.pc = "returned" =>
        /\ Len(tree1.children) = Len(fs1.entries)
        /\ Range(scan.order) = 1..Len(fs1.entries)
        /\ \A k \in 1..Len(scan.order) :
               tree1.children[k] = process_item(fs1.entries[scan.order[k]])
        /\ res12.done =>
               LET seq == compare_trees(scan_directory(fs1), tree2)
               IN  /\ FracEq(res12.similarity, seq.similarity)
                   /\ res12.differences = seq.differences

\* A root whose children are not in enumeration order was compared with a
\* tree it partly differs from.
C10_Witness ==
    /\ scan.pc = "returned"
    /\ res12.done
    /\ tree1.children # scan_directory(fs1).children
    /\ res12.differences # EmptyBag
    /\ res12.similarity[1] > 0

(***************************************************************************)
(* Claims about process_tree, under SpecProcess.                           *)
(***************************************************************************)
Ended == pc \in {"done", "failed"}

\* C4: process_tree on a tree of FileNode objects cannot fail and sets depth
\* on every node, the root included: root 0, every other node its parent's
\* depth plus one.
C4_Depths ==
    (~callerDepth /\ Ended) =>
        /\ pc = "done"
        /\ \A p \in NodePaths(tree1) :
               /\ depth[p] = Len(p)
               /\ p \in depthSet
               /\ p = <<>> \/ depth[p] = depth[Front(p)] + 1

\* C5: the weighting capability is invoked exactly once for every node
\* reachable from the root, each time after depth is set on all nodes and the
\* maxima are stored on the root; traverse_tree ends having yielded every
\* node exactly once.
C5_WeighedOnce ==
    (num_perm = DefaultNumPerm /\ Ended) =>
        /\ \A p \in NodePaths(tree1) : weightCalls[p] = 1
        /\ ~earlyCall
        /\ Len(yielded) = Cardinality(NodePaths(tree1))
        /\ Range(yielded) = NodePaths(tree1)

\* C8: process_tree(root, 0) is rejected with a configuration error before
\* any traversal begins: it never completes, and when it has failed no node
\* has depth, weight or signature, the root has no maxima and the weighting
\* capability was not invoked.
C8_ConfigError ==
    num_perm = 0 =>
        /\ pc # "done"
        /\ pc = "failed" => err = "ConfigError"
        /\ depthSet = {}
        /\ yielded = <<>>
        /\ \A p \in NodePaths(tree1) : weightCalls[p] = 0 /\ signature[p] = Unset
        /\ rootAttrs = [max_depth |-> Unset, max_branching_factor |-> Unset]

=============================================================================
